---- MODULE Spec2Model ----
(***************************************************************************)
(* State machine of the server console component                          *)
(* (resources/scripts/components/server/console/Console.tsx).             *)
(*                                                                         *)
(* One step of the model is one callback of the UI event loop together    *)
(* with the render and the effects React commits for it: a key event on   *)
(* the command input, an event delivered by the connection object, a      *)
(* change of the socket store (connected, instance), a mount or unmount.  *)
(* Strings the code inspects (the command input) are sequences of         *)
(* one-character strings.  Terminal contents are counted in writeln       *)
(* calls.                                                                  *)
(***************************************************************************)
EXTENDS Integers, Sequences, FiniteSets, TLC

\* ---------------------------------------------------------------- constants

\* slice(0, 50) of setHistory
HistoryCap == 50

\* the writeln calls of the welcome banner written when the terminal is opened
WelcomeLines == 8

\* `instance` of the socket store when no connection object is set (null)
NoInstance == 0

\* ------------------------------------------------------------------- bounds

\* number of distinct connection objects the store may hold over time
NumInstances == 2

\* number of non-empty commands entered in one behaviour
MaxEnters == 1

\* lines a handler may add to the terminal (and to the line counter) before
\* the terminal is cleared again
MaxLines == 1

Instances == 1 .. NumInstances

\* ------------------------------------------------------------------ strings

Min(a, b) == IF a < b THEN a ELSE b
Max(a, b) == IF a > b THEN a ELSE b

UpperToLower ==
    [A |-> "a", B |-> "b", C |-> "c", D |-> "d", E |-> "e", F |-> "f",
     G |-> "g", H |-> "h", I |-> "i", J |-> "j", K |-> "k", L |-> "l",
     M |-> "m", N |-> "n", O |-> "o", P |-> "p", Q |-> "q", R |-> "r",
     S |-> "s", T |-> "t", U |-> "u", V |-> "v", W |-> "w", X |-> "x",
     Y |-> "y", Z |-> "z"]

\* String.prototype.toLowerCase
toLowerCase(s) ==
    [k \in 1 .. Len(s) |->
        IF s[k] \in DOMAIN UpperToLower THEN UpperToLower[s[k]] ELSE s[k]]

Whitespace == {" ", "\t", "\n", "\r"}

RECURSIVE trimStart(_)
trimStart(s) ==
    IF s # <<>> /\ Head(s) \in Whitespace THEN trimStart(Tail(s)) ELSE s

RECURSIVE trimEnd(_)
trimEnd(s) ==
    IF s # <<>> /\ s[Len(s)] \in Whitespace
    THEN trimEnd(SubSeq(s, 1, Len(s) - 1))
    ELSE s

\* String.prototype.trim
trim(s) == trimEnd(trimStart(s))

\* String.prototype.startsWith
startsWith(s, prefix) ==
    /\ Len(prefix) <= Len(s)
    /\ SubSeq(s, 1, Len(prefix)) = prefix

\* the completion list of the Tab key, in the order of the code
completions ==
    << <<"h", "e", "l", "p">>,
       <<"s", "t", "a", "t", "u", "s">>,
       <<"s", "t", "o", "p">>,
       <<"s", "t", "a", "r", "t">>,
       <<"r", "e", "s", "t", "a", "r", "t">>,
       <<"s", "a", "y">>,
       <<"l", "i", "s", "t">> >>

\* completions.find(cmd => cmd.startsWith(current.toLowerCase())):
\* the first match, <<>> standing for undefined (no completion is empty)
findCompletion(current) ==
    LET hits == {k \in 1 .. Len(completions) :
                    startsWith(completions[k], toLowerCase(current))}
    IN  IF hits = {} THEN <<>>
        ELSE completions[CHOOSE k \in hits : \A j \in hits : k <= j]

\* the value the Tab branch leaves in the input
TabValue(current) ==
    IF trim(current) # <<>> /\ findCompletion(current) # <<>>
    THEN findCompletion(current)
    ELSE current

\* variant: the new history is not cut to HistoryCap entries
PushHistoryNoSlice(command, prevHistory) == <<command>> \o prevHistory

\* variant: earlier occurrences of the command are removed from the history
PushHistoryDedup(command, prevHistory) ==
    LET rest == SelectSeq(prevHistory, LAMBDA e : e # command)
    IN  SubSeq(<<command>> \o rest, 1, Min(HistoryCap, Len(rest) + 1))

\* [command, ...prevHistory].slice(0, 50)
PushHistory(command, prevHistory) ==
    SubSeq(<<command>> \o prevHistory, 1,
           Min(HistoryCap, Len(prevHistory) + 1))

\* history[newIndex] || '' : an out-of-range index reads undefined
HistoryAt(h, newIndex) ==
    IF newIndex + 1 \in 1 .. Len(h) THEN h[newIndex + 1] ELSE <<>>

\* ------------------------------------------------------------------- events

\* the keys of the `listeners` record of the socket effect
ListenerKeys ==
    {"STATUS", "CONSOLE_OUTPUT", "INSTALL_OUTPUT", "TRANSFER_LOGS",
     "TRANSFER_STATUS", "DAEMON_MESSAGE", "DAEMON_ERROR"}

\* event kinds a connection object can carry listeners for: the seven of the
\* component and one it never subscribes to
EventKinds == ListenerKeys \cup {"STATS"}

\* payloads of a transfer status event
TransferStatuses == {"failure", "archive", "success", "processing"}

Payloads(kind) ==
    IF kind = "TRANSFER_STATUS" THEN TransferStatuses ELSE {"line"}


\* -------------------------------------------------------------------- state

VARIABLES
    mounted,          \* the component is rendered
    connected,        \* state.socket.connected
    instance,         \* state.socket.instance: NoInstance or a connection object
    canSendCommands,  \* usePermissions(['control.console'])
    isTransferring,   \* state.server.data.isTransferring
    stored,           \* the persisted value of `${serverId}:command_history`
    history,          \* the history state of the component
    historyIndex,     \* the historyIndex state of the component
    inputValue,       \* value of the command input element
    opened,           \* terminal.element is set
    termLines,        \* lines in the terminal, in writeln calls since the last clear
    lastLine,         \* the line the terminal ends with: "none" when empty, "banner",
                      \* "notice" (terminal connected), "command" (echo), "error"
                      \* (daemon error), "line" (any other event line)
    statLines,        \* terminalStats.lines
    registered,       \* listeners of this component on each connection object, per event kind
    cleanupInstance,  \* connection object captured by the pending cleanup of the socket effect
    sends,            \* requests sent by the last step, in order
    entered           \* non-empty commands entered so far

vars ==
    <<mounted, connected, instance, canSendCommands, isTransferring, stored,
      history, historyIndex, inputValue, opened, termLines, lastLine,
      statLines, registered, cleanupInstance, sends, entered>>

\* a persisted history of HistoryCap entries, neighbours differing
FullHistory ==
    [k \in 1 .. HistoryCap |->
        IF k % 2 = 1 THEN <<"S">> ELSE <<"s", "t", "a", "t", "u", "s">>]

\* the persisted histories a behaviour starts from
InitHistories == {<<>>, << <<"s", "t", "a", "t", "u", "s">>, <<"S">> >>, FullHistory}

\* what the user types into the command input
Typeable == {<<>>, <<"S">>}

NoListeners == [i \in Instances |-> [k \in EventKinds |-> 0]]

Init ==
    /\ mounted = FALSE
    /\ connected = FALSE
    /\ instance = NoInstance
    /\ canSendCommands \in BOOLEAN
    /\ isTransferring = FALSE
    /\ stored \in InitHistories
    /\ history = stored
    /\ historyIndex = -1
    /\ inputValue = <<>>
    /\ opened = FALSE
    /\ termLines = 0
    /\ lastLine = "none"
    /\ statLines = 0
    /\ registered = NoListeners
    /\ cleanupInstance = NoInstance
    /\ sends = <<>>
    /\ entered = 0

\* ------------------------------------------------- connection object, effects

\* instance.addListener(key, listeners[key]) for every key of `listeners`
AddListeners(reg, i) ==
    [reg EXCEPT ![i] =
        [k \in EventKinds |->
            IF k \in ListenerKeys THEN reg[i][k] + 1 ELSE reg[i][k]]]

\* variant: the listener of DAEMON_MESSAGE, an inline arrow function, is not
\* the one that was registered, so removeListener does not find it
RemoveListenersPartial(reg, i) ==
    [reg EXCEPT ![i] =
        [k \in EventKinds |->
            IF k \in ListenerKeys \ {"DAEMON_MESSAGE"}
            THEN Max(reg[i][k] - 1, 0)
            ELSE reg[i][k]]]

\* instance.removeListener(key, listeners[key]) for every key of `listeners`:
\* each call removes one registration of that listener if there is one
RemoveListeners(reg, i) ==
    [reg EXCEPT ![i] =
        [k \in EventKinds |->
            IF k \in ListenerKeys THEN Max(reg[i][k] - 1, 0) ELSE reg[i][k]]]

\* a request handed to instance.send, with the number of event kinds that
\* carried a listener of this component on that object when it was sent
Request(name, i, payload, reg) ==
    [request |-> name, on |-> i, payload |-> payload,
     listeners |-> Cardinality({k \in EventKinds : reg[i][k] > 0})]

\* variant: the socket effect returns no cleanup
SocketCleanupNone(reg, ci) == reg

\* the cleanup returned by the socket effect; ci is the instance it captured,
\* NoInstance when the effect returned no cleanup
SocketCleanup(reg, ci) ==
    IF ci # NoInstance THEN RemoveListeners(reg, ci) ELSE reg

\* variant: the logs are requested before the listeners are registered
SocketEffectSendFirst(c, i, transferring, reg, term, last) ==
    IF c /\ i # NoInstance
    THEN [reg     |-> AddListeners(reg, i),
          term    |-> IF ~transferring THEN 1 ELSE term,
          last    |-> IF ~transferring THEN "notice" ELSE last,
          sends   |-> <<Request("send logs", i, <<>>, reg)>>,
          cleanup |-> i]
    ELSE [reg |-> reg, term |-> term, last |-> last, sends |-> <<>>,
          cleanup |-> NoInstance]

\* variant: the terminal is cleared on every connect, also while transferring
SocketEffectAlwaysClear(c, i, transferring, reg, term, last) ==
    IF c /\ i # NoInstance
    THEN LET reg2 == AddListeners(reg, i)
         IN  [reg     |-> reg2,
              term    |-> 1,
              last    |-> "notice",
              sends   |-> <<Request("send logs", i, <<>>, reg2)>>,
              cleanup |-> i]
    ELSE [reg |-> reg, term |-> term, last |-> last, sends |-> <<>>,
          cleanup |-> NoInstance]

\* the body of the socket effect, useEffect(..., [connected, instance])
SocketEffect(c, i, transferring, reg, term, last) ==
    IF c /\ i # NoInstance
    THEN LET reg2 == AddListeners(reg, i)
         IN  [reg     |-> reg2,
              term    |-> IF ~transferring THEN 1 ELSE term,
              last    |-> IF ~transferring THEN "notice" ELSE last,
              sends   |-> <<Request("send logs", i, <<>>, reg2)>>,
              cleanup |-> i]
    ELSE [reg |-> reg, term |-> term, last |-> last, sends |-> <<>>,
          cleanup |-> NoInstance]

\* the body of the terminal effect, useEffect(..., [terminal, connected, serverName])
TerminalEffect(c, isOpen, term, last) ==
    IF c /\ ~isOpen
    THEN [opened |-> TRUE, term |-> term + WelcomeLines, last |-> "banner"]
    ELSE [opened |-> isOpen, term |-> term, last |-> last]

\* the commit of a render of the mounted component: the cleanup of the socket
\* effect if its dependencies changed, then the effects whose dependencies
\* changed, in the order of the code
Commit(c, i, isOpen, term, last, runTerminal, runSocket) ==
    LET reg1 == IF runSocket THEN SocketCleanup(registered, cleanupInstance)
                ELSE registered
        te   == IF runTerminal THEN TerminalEffect(c, isOpen, term, last)
                ELSE [opened |-> isOpen, term |-> term, last |-> last]
        se   == IF runSocket
                THEN SocketEffect(c, i, isTransferring, reg1, te.term, te.last)
                ELSE [reg |-> reg1, term |-> te.term, last |-> te.last,
                      sends |-> <<>>, cleanup |-> cleanupInstance]
    IN  /\ opened' = te.opened
        /\ termLines' = se.term
        /\ lastLine' = se.last
        /\ registered' = se.reg
        /\ cleanupInstance' = se.cleanup
        /\ sends' = se.sends

\* --------------------------------------------------------- socket store, mount

\* the store's setConnectionState, and the re-render it causes
SetConnectionState(c) ==
    /\ c # connected
    /\ connected' = c
    /\ IF mounted
       THEN Commit(c, instance, opened, termLines, lastLine, TRUE, TRUE)
       ELSE /\ sends' = <<>>
            /\ UNCHANGED <<opened, termLines, lastLine, registered, cleanupInstance>>
    /\ UNCHANGED <<mounted, instance, canSendCommands, isTransferring, stored,
                   history, historyIndex, inputValue, statLines, entered>>

\* the store's setInstance, and the re-render it causes
SetInstance(i) ==
    /\ i # instance
    /\ instance' = i
    /\ IF mounted
       THEN Commit(connected, i, opened, termLines, lastLine, FALSE, TRUE)
       ELSE /\ sends' = <<>>
            /\ UNCHANGED <<opened, termLines, lastLine, registered, cleanupInstance>>
    /\ UNCHANGED <<mounted, connected, canSendCommands, isTransferring, stored,
                   history, historyIndex, inputValue, statLines, entered>>

\* isTransferring of the server data changes; no effect depends on it
SetTransferring(b) ==
    /\ b # isTransferring
    /\ isTransferring' = b
    /\ sends' = <<>>
    /\ UNCHANGED <<mounted, connected, instance, canSendCommands, stored,
                   history, historyIndex, inputValue, opened, termLines,
                   lastLine, statLines, registered, cleanupInstance, entered>>

\* the value usePersistedState gives the history state on the first render
LoadPersisted == stored

\* the first render of the component and the effects of its mount
Mount ==
    /\ ~mounted
    /\ mounted' = TRUE
    /\ history' = LoadPersisted
    /\ historyIndex' = -1
    /\ inputValue' = <<>>
    /\ statLines' = 0
    /\ Commit(connected, instance, FALSE, 0, "none", TRUE, TRUE)
    /\ UNCHANGED <<connected, instance, canSendCommands, isTransferring,
                   stored, entered>>

\* the component is torn down: the pending cleanup runs and the component's
\* state is discarded (shown as the values the next mount constructs)
Unmount ==
    /\ mounted
    /\ mounted' = FALSE
    /\ registered' = SocketCleanup(registered, cleanupInstance)
    /\ cleanupInstance' = NoInstance
    /\ historyIndex' = -1
    /\ inputValue' = <<>>
    /\ opened' = FALSE
    /\ termLines' = 0
    /\ lastLine' = "none"
    /\ statLines' = 0
    /\ sends' = <<>>
    /\ UNCHANGED <<connected, instance, canSendCommands, isTransferring,
                   stored, history, entered>>

\* ------------------------------------------------------------ event handlers

\* the terminal and the line counter as the handlers change them
Console(term, last, stat) == [term |-> term, last |-> last, stat |-> stat]

handleConsoleOutput(t) == Console(t.term + 1, "line", t.stat + 1)

handleTransferStatus(t, status) ==
    IF status \in {"failure", "archive", "success"}
    THEN Console(t.term + 1, "line", t.stat)
    ELSE t

\* variant: a daemon error goes through the line counter like console output
handleDaemonErrorOutputCounted(t) == Console(t.term + 1, "error", t.stat + 1)

handleDaemonErrorOutput(t) == Console(t.term + 1, "error", t.stat)

handlePowerChangeEvent(t) == Console(t.term + 1, "line", t.stat)

\* listeners[kind](payload)
Listener(kind, payload, t) ==
    CASE kind = "STATUS" -> handlePowerChangeEvent(t)
      [] kind \in {"CONSOLE_OUTPUT", "INSTALL_OUTPUT", "TRANSFER_LOGS",
                   "DAEMON_MESSAGE"} -> handleConsoleOutput(t)
      [] kind = "TRANSFER_STATUS" -> handleTransferStatus(t, payload)
      [] kind = "DAEMON_ERROR" -> handleDaemonErrorOutput(t)
      [] OTHER -> t

\* the emitter calls every registered listener of the kind
RECURSIVE CallListeners(_, _, _, _)
CallListeners(n, kind, payload, t) ==
    IF n = 0 THEN t
    ELSE CallListeners(n - 1, kind, payload, Listener(kind, payload, t))

\* connection object i delivers an event of the kind to the listeners this
\* component registered on it
Emit(i, kind, payload) ==
    /\ registered[i][kind] > 0
    /\ termLines < MaxLines
    /\ statLines < MaxLines
    /\ LET t == CallListeners(registered[i][kind], kind, payload,
                              Console(termLines, lastLine, statLines))
       IN  /\ termLines' = t.term
           /\ lastLine' = t.last
           /\ statLines' = t.stat
    /\ sends' = <<>>
    /\ UNCHANGED <<mounted, connected, instance, canSendCommands,
                   isTransferring, stored, history, historyIndex, inputValue,
                   opened, registered, cleanupInstance, entered>>

\* clearTerminal: the clear button and Ctrl+K
clearTerminal ==
    /\ mounted
    /\ termLines' = 0
    /\ lastLine' = "none"
    /\ statLines' = 0
    /\ sends' = <<>>
    /\ UNCHANGED <<mounted, connected, instance, canSendCommands,
                   isTransferring, stored, history, historyIndex, inputValue,
                   opened, registered, cleanupInstance, entered>>

\* ---------------------------------------------------------- command input

\* variant: the command input is rendered without the permission check
InputEnabledNoPermission ==
    /\ mounted
    /\ instance # NoInstance
    /\ connected

\* the command input is rendered and not disabled
InputEnabled ==
    /\ mounted
    /\ canSendCommands
    /\ instance # NoInstance
    /\ connected

\* the user edits the text of the command input
TypeInput(v) ==
    /\ InputEnabled
    /\ v # inputValue
    /\ inputValue' = v
    /\ sends' = <<>>
    /\ UNCHANGED <<mounted, connected, instance, canSendCommands,
                   isTransferring, stored, history, historyIndex, opened,
                   termLines, lastLine, statLines, registered,
                   cleanupInstance, entered>>

\* variant: ArrowUp does not stop at the oldest entry
ArrowUpIndexNoMin(idx, h) == idx + 1

\* newIndex of the ArrowUp branch
ArrowUpIndex(idx, h) == Min(idx + 1, Len(h) - 1)

\* variant: ArrowDown does not stop at -1
ArrowDownIndexNoMax(idx) == idx - 1

\* newIndex of the ArrowDown branch
ArrowDownIndex(idx) == Max(idx - 1, -1)

\* variant: the command is normalised before it is sent
CommandPayloadLower(command) == toLowerCase(command)

\* the payload of instance.send('send command', command)
CommandPayload(command) == command

\* the state update of the Enter branch; usePersistedState stores the new
\* history under its key
SubmitCommand(command) ==
    /\ termLines < MaxLines
    /\ entered < MaxEnters
    /\ termLines' = termLines + 1
    /\ lastLine' = "command"
    /\ history' = PushHistory(command, history)
    /\ stored' = history'
    /\ historyIndex' = -1
    /\ sends' = IF instance # NoInstance
                THEN <<Request("send command", instance, CommandPayload(command),
                           registered)>>
                ELSE <<>>
    /\ inputValue' = <<>>
    /\ entered' = entered + 1

\* handleCommandKeyDown for a key event on the command input
handleCommandKeyDown(key) ==
    /\ InputEnabled
    /\ LET upIndex   == IF key = "ArrowUp"
                        THEN ArrowUpIndex(historyIndex, history)
                        ELSE historyIndex
           upValue   == IF key = "ArrowUp"
                        THEN HistoryAt(history, upIndex)
                        ELSE inputValue
           downIndex == IF key = "ArrowDown"
                        THEN ArrowDownIndex(upIndex)
                        ELSE upIndex
           downValue == IF key = "ArrowDown"
                        THEN HistoryAt(history, downIndex)
                        ELSE upValue
           command   == IF key = "Tab" THEN TabValue(downValue) ELSE downValue
       IN  IF key = "Enter" /\ Len(command) > 0
           THEN SubmitCommand(command)
           ELSE /\ historyIndex' = downIndex
                /\ inputValue' = command
                /\ sends' = <<>>
                /\ UNCHANGED <<stored, history, termLines, lastLine, entered>>
    /\ UNCHANGED <<mounted, connected, instance, canSendCommands,
                   isTransferring, opened, statLines, registered,
                   cleanupInstance>>

KeyArrowUp == handleCommandKeyDown("ArrowUp")
KeyArrowDown == handleCommandKeyDown("ArrowDown")
KeyTab == handleCommandKeyDown("Tab")
KeyEnter == handleCommandKeyDown("Enter")

\* ------------------------------------------------------------ specification

Next ==
    \/ \E c \in BOOLEAN : SetConnectionState(c)
    \/ \E i \in Instances \cup {NoInstance} : SetInstance(i)
    \/ \E b \in BOOLEAN : SetTransferring(b)
    \/ Mount
    \/ Unmount
    \/ \E i \in Instances, kind \in EventKinds :
          \E payload \in Payloads(kind) : Emit(i, kind, payload)
    \/ clearTerminal
    \/ \E v \in Typeable : TypeInput(v)
    \/ KeyArrowUp
    \/ KeyArrowDown
    \/ KeyTab
    \/ KeyEnter

Spec == Init /\ [][Next]_vars

\* ------------------------------------------------------------------- claims

\* C1: in every reachable state the command history, in the component and as
\* persisted, holds at most HistoryCap (50) entries.
HistoryWithinCap ==
    /\ Len(history) <= HistoryCap
    /\ Len(stored) <= HistoryCap

\* a command was entered and the history is at the cap
HistoryAtCapAfterEnter ==
    /\ mounted
    /\ entered > 0
    /\ Len(history) = HistoryCap
    /\ Len(stored) = HistoryCap

\* C2: in every reachable state -1 <= historyIndex <= Len(history) - 1; with
\* an empty history that leaves -1 only.
HistoryIndexInRange ==
    /\ historyIndex \in -1 .. Len(history) - 1
    /\ (history = <<>> => historyIndex = -1)

\* after a command was entered, navigation has reached the oldest entry
IndexAtOldestAfterEnter ==
    /\ mounted
    /\ entered > 0
    /\ historyIndex >= 1
    /\ historyIndex = Len(history) - 1

\* C3: Enter with a non-empty input c replaces the history h by the first
\* HistoryCap elements of <<c>> \o h: c is element 1, every earlier entry
\* moves one position down in order, duplicates of c stay, and only entries
\* beyond the cap (the oldest, when h was full) are dropped.
EnterPushesFront ==
    [][ (KeyEnter /\ Len(inputValue) > 0) =>
          /\ Len(history') = Min(Len(history) + 1, HistoryCap)
          /\ history'[1] = inputValue
          /\ \A k \in 2 .. Len(history') : history'[k] = history[k - 1]
          /\ stored' = history'
      ]_vars

\* a command equal to the newest entry was entered into the full history:
\* both copies are kept and the oldest entry of the full history is gone
DuplicateKeptOldestDropped ==
    /\ entered = 1
    /\ Len(history) = HistoryCap
    /\ history[1] = history[2]
    /\ \A k \in 2 .. HistoryCap : history[k] = FullHistory[k - 1]

\* C4: whenever the connection is not established (connected false or no
\* instance) or the component is torn down, no listener of this component is
\* registered on any connection object.
NoListenersWhenDisconnected ==
    (~connected \/ instance = NoInstance \/ ~mounted) =>
        registered = NoListeners

\* the mounted component had opened its terminal on a connection and is now
\* disconnected from a connection object that is still set
DisconnectedAfterConnect ==
    /\ mounted
    /\ opened
    /\ ~connected
    /\ instance # NoInstance
    /\ registered = NoListeners

\* C5: the listeners of this component are on at most one connection object;
\* while connected that object is the current instance, it carries exactly
\* one listener for each of the seven kinds and none for any other kind.
ListenersOnCurrentOnly ==
    /\ Cardinality({i \in Instances :
                       \E k \in EventKinds : registered[i][k] > 0}) <= 1
    /\ \A i \in Instances, k \in EventKinds : registered[i][k] <= 1
    /\ (mounted /\ connected /\ instance # NoInstance) =>
          /\ \A k \in ListenerKeys : registered[instance][k] = 1
          /\ \A k \in EventKinds \ ListenerKeys : registered[instance][k] = 0
          /\ \A i \in Instances \ {instance} :
                \A k \in EventKinds : registered[i][k] = 0
    /\ Cardinality(ListenerKeys) = 7

\* the component is connected to the last connection object, after the
\* terminal was opened, and its listeners have just been registered there
ListenersOnReplacedInstance ==
    /\ mounted
    /\ connected
    /\ opened
    /\ instance = NumInstances
    /\ cleanupInstance = instance
    /\ \A k \in ListenerKeys : registered[instance][k] = 1
    /\ sends # <<>>

\* the step makes the mounted component connected with an instance: a mount,
\* a connect, or a change of the connection object, ending connected
BecomesConnected ==
    /\ mounted' /\ connected' /\ instance' # NoInstance
    /\ ~(mounted /\ connected /\ instance = instance')

\* C6: each step that makes the component connected with an instance sends
\* exactly one 'send logs' request, on the then-current instance, with all
\* seven listeners registered on it when it is sent; no other step sends one.
SendLogsOnConnectOnly ==
    [][ IF BecomesConnected
        THEN /\ Len(sends') = 1
             /\ sends'[1].request = "send logs"
             /\ sends'[1].on = instance'
             /\ sends'[1].listeners = 7
        ELSE \A k \in DOMAIN sends' : sends'[k].request # "send logs"
      ]_vars

\* logs were requested on the current instance while the server transfers
LogsRequestedOnReconnect ==
    /\ Len(sends) = 1
    /\ sends[1].request = "send logs"
    /\ sends[1].on = instance
    /\ sends[1].listeners = 7
    /\ isTransferring

\* the user holds the permission and the connection is established
CanSubmit ==
    /\ canSendCommands
    /\ connected
    /\ instance # NoInstance

\* C7: a 'send command' request is sent only by a step taken where the user
\* holds control.console and the connection is established; a step taken in
\* any other state sends no command and leaves the history unchanged.
SubmissionGated ==
    [][ /\ (\E k \in DOMAIN sends' : sends'[k].request = "send command")
              => (mounted /\ CanSubmit)
        /\ ~CanSubmit => (history' = history /\ stored' = stored)
      ]_vars

\* a command was sent with the permission held and the connection up
CommandSentWithPermission ==
    /\ sends # <<>>
    /\ sends[1].request = "send command"
    /\ CanSubmit
    /\ mounted

\* a daemon error event is delivered to the component
DaemonErrorStep == \E i \in Instances : Emit(i, "DAEMON_ERROR", "line")

\* C8: handling a daemon error writes exactly one line to the terminal,
\* sends no request, and leaves the history, the history index, the line
\* counter and the listener registrations unchanged.
DaemonErrorOnlyRendered ==
    [][ DaemonErrorStep =>
          /\ termLines' = termLines + 1
          /\ lastLine' = "error"
          /\ sends' = <<>>
          /\ UNCHANGED <<history, stored, historyIndex, statLines,
                         registered, cleanupInstance>>
      ]_vars

\* the terminal ends with a daemon error line written into a cleared terminal
DaemonErrorRendered ==
    /\ lastLine = "error"
    /\ termLines = 1
    /\ statLines = 0
    /\ sends = <<>>

Shown(h, idx) == IF idx >= 0 THEN h[idx + 1] ELSE <<>>

\* C10: ArrowUp sets historyIndex to min(historyIndex + 1, Len(history) - 1),
\* ArrowDown to max(historyIndex - 1, -1); after either the input shows the
\* entry at the index, or nothing at -1; neither changes the history or
\* sends a request; an ArrowUp that is not saturated is undone by ArrowDown.
NavigationSaturates ==
    [][ /\ KeyArrowUp =>
              historyIndex' = Min(historyIndex + 1, Len(history) - 1)
        /\ KeyArrowDown =>
              historyIndex' = Max(historyIndex - 1, -1)
        /\ (KeyArrowUp \/ KeyArrowDown) =>
              /\ inputValue' = Shown(history, historyIndex')
              /\ history' = history
              /\ stored' = stored
              /\ sends' = <<>>
        /\ historyIndex + 1 <= Len(history) - 1 =>
              ArrowDownIndex(ArrowUpIndex(historyIndex, history)) = historyIndex
      ]_vars

\* navigation went up to the oldest entry of a full history and shows it
OldestEntryShown ==
    /\ mounted
    /\ Len(history) = HistoryCap
    /\ historyIndex = HistoryCap - 1
    /\ inputValue = history[HistoryCap]

\* C11: a step that makes the component connected with an instance clears the
\* terminal, leaving the single 'Terminal connected' notice, if and only if
\* the server is not transferring; while it is transferring every line
\* already in the terminal stays (the welcome banner is added below them when
\* the terminal is opened by the same step).  In both cases the seven
\* listeners are registered on the instance and the logs are requested.
ClearedOnConnectUnlessTransferring ==
    [][ BecomesConnected =>
          /\ IF ~isTransferring
             THEN /\ termLines' = 1
                  /\ lastLine' = "notice"
             ELSE /\ termLines' =
                        termLines + (IF opened THEN 0 ELSE WelcomeLines)
                  /\ lastLine' = (IF opened THEN lastLine ELSE "banner")
          /\ statLines' = (IF mounted THEN statLines ELSE 0)
          /\ \A k \in ListenerKeys : registered'[instance'][k] = 1
          /\ \E k \in DOMAIN sends' :
                /\ sends'[k].request = "send logs"
                /\ sends'[k].on = instance'
      ]_vars

\* the component has just reconnected while the server transfers, and the
\* event line written before the reconnect is still the end of the terminal
TransferOutputSurvivesReconnect ==
    /\ mounted
    /\ connected
    /\ isTransferring
    /\ Len(sends) = 1
    /\ sends[1].request = "send logs"
    /\ termLines >= 1
    /\ lastLine = "line"
    /\ \A k \in ListenerKeys : registered[instance][k] = 1

====
